---- MODULE Spec2Model ----
(***************************************************************************)
(* Lingo AI backend (src/app.py): the session store `user_sessions`, the   *)
(* bounded conversation memory of SimpleAITutor, and the request handlers  *)
(* chat / new_session / reset_session, modelled at the granularity at      *)
(* which the threaded development server can interleave two requests.      *)
(*                                                                         *)
(* Strings are sequences of tokens: SP is a blank, NL a line break, and    *)
(* every other token a word or, where clean_text is concerned, one         *)
(* character.  Python's None is the value PyNone.                          *)
(***************************************************************************)
EXTENDS Naturals, Integers, Sequences, FiniteSets, TLC

VARIABLES
    groq_api_key,      \* os.getenv('GROQ_API_KEY') is set
    deepgram_api_key,  \* os.getenv('DEEPGRAM_API_KEY') is set
    phase,             \* "startup" (before app.run) or "serving"
    now,               \* time.time(), in seconds
    heap,              \* the session_data objects ever constructed, by identity
    user_sessions,     \* the dict user_sessions: session id -> identity in heap
    next_uuid,         \* how many uuid4() values were drawn
    nreq,              \* how many requests were accepted (the next message's serial)
    pc,                \* per worker thread: its position in the handler
    loc,               \* per worker thread: the handler's local variables
    snap,              \* per worker thread: store and heap when its request began
                       \* (history variable, recorded by the serial specifications)
    hist,              \* per session_data object: the turns taken on it since the
                       \* last clear_memory (history variable)
    removed            \* the session ids cleanup_old_sessions has deleted (history
                       \* variable)

vars == <<groq_api_key, deepgram_api_key, phase, now, heap, user_sessions,
          next_uuid, nreq, pc, loc, snap, hist, removed>>

-----------------------------------------------------------------------------
(* Bounds of the model *)

MaxReqs == 2        \* requests accepted in the serial specifications
MaxReqsConc == 2    \* requests accepted in the threaded specification
MaxTurns == 12      \* turns taken in the single-session specification
MaxTime == 10800    \* the clock stops advancing here
MaxTextLen == 3     \* length of the replies enumerated character by character
LongMargin == 2     \* the long replies are up to this much longer than MaxSpeechLen

(* Program constants *)

MemoryCap == 10     \* add_to_memory keeps the last 10 exchanges
ContextLen == 3     \* get_memory_context reads the last 3 exchanges
TTL == 7200         \* cleanup_old_sessions: 2 hours
MaxSpeechLen == 500 \* clean_text: the longest text sent to the Speech Provider
KeepLen == 497      \* clean_text: the characters kept before the ellipsis

Quantum == TTL \div 2   \* seconds the clock advances per tick

Threads == {"t1", "t2"}
CallerIds == {"a"}          \* an identifier the caller made up

SP == " "
NL == "\n"
Whitespace == {SP, NL}   \* what str.strip and str.split take for whitespace
Ellipsis == <<".", ".", ".">>
Backquote == "bq"          \* the character U+0060, which a string here cannot hold
PyNone == <<"<None>">>
NoId == "<None>"            \* request without 'session_id'
RAISE == <<"<raise>">>      \* the provider call raised
Fallback == <<"I'm having trouble responding.">>
AudioB64 == <<"<base64 audio>">>

-----------------------------------------------------------------------------
(* Pure helpers *)

Min(a, b) == IF a < b THEN a ELSE b

\* s[-n:]
LastN(s, n) == SubSeq(s, Len(s) - Min(n, Len(s)) + 1, Len(s))

RECURSIVE LStrip(_)
LStrip(s) == IF s # <<>> /\ Head(s) \in Whitespace THEN LStrip(Tail(s)) ELSE s

RECURSIVE RStrip(_)
RStrip(s) == IF s # <<>> /\ s[Len(s)] \in Whitespace THEN RStrip(SubSeq(s, 1, Len(s) - 1)) ELSE s

\* str.strip()
Strip(s) == RStrip(LStrip(s))

\* (mutant) every draw gives the same value
UuidConstant(k) == "u1"

\* str(uuid.uuid4()): the k-th value drawn
Uuid(k) == "u" \o ToString(k)

\* the message and the reply of request n
Word(n) == "m" \o ToString(n)

\* the 'message' fields a caller may send as request n
RawMessages(n) == { <<>>, <<SP>>, <<Word(n)>>, <<SP, Word(n), SP>> }

\* completion.choices[0].message.content: text (here with a trailing blank) or None
Contents == { <<"re", SP>>, PyNone }

\* everything the Completion Provider call can do
Outcomes == Contents \cup {RAISE}

-----------------------------------------------------------------------------
(* SimpleAITutor, SimpleTTS and the store, as functions on values *)

\* the dict get_or_create_session / new_session builds: SimpleAITutor(language,
\* proficiency) with an empty memory, SimpleTTS with the key of the environment,
\* and 'created_at'
NewEntry(language, proficiency, t, key) ==
    [ language |-> language, proficiency |-> proficiency, memory |-> <<>>,
      api_key |-> key, created_at |-> t ]

\* (mutant) the membership test always takes the creating branch
IsUnknownAlways(sid, store) == TRUE

\* session_id not in user_sessions
IsUnknown(sid, store) == sid \notin DOMAIN store

\* (mutant) the store is rebuilt with the new binding alone
BindAlone(store, sid, oid) == [ s \in {sid} |-> oid ]

\* user_sessions[session_id] = session_data
Bind(store, sid, oid) == [ s \in DOMAIN store \cup {sid} |-> IF s = sid THEN oid ELSE store[s] ]

\* one exchange of get_memory_context's transcript
RECURSIVE Transcript(_)
Transcript(m) ==
    IF m = <<>> THEN <<>>
    ELSE << <<"User:">> \o Head(m).user, <<"AI:">> \o Head(m).ai >> \o Transcript(Tail(m))

\* (mutant) the context is built from the oldest records: self.memory[:3]
MemoryContextOldest(memory) ==
    IF memory = <<>> THEN << <<"This is the start of the conversation.">> >>
    ELSE Transcript(SubSeq(memory, 1, Min(ContextLen, Len(memory))))

\* SimpleAITutor.get_memory_context
MemoryContext(memory) ==
    IF memory = <<>> THEN << <<"This is the start of the conversation.">> >>
    ELSE Transcript(LastN(memory, ContextLen))

\* self.memory.append({'user': ..., 'ai': ...})
AddRecord(memory, user_message, ai_response) ==
    Append(memory, [ user |-> user_message, ai |-> ai_response ])

\* (mutant) the cap is tested one too high
NeedsTrimLate(memory) == Len(memory) > MemoryCap + 1

\* len(self.memory) > 10
NeedsTrim(memory) == Len(memory) > MemoryCap

\* (mutant) the slice keeps the first exchanges, self.memory[:10]
TrimmedHead(memory) == SubSeq(memory, 1, Min(MemoryCap, Len(memory)))

\* self.memory[-10:]
Trimmed(memory) == LastN(memory, MemoryCap)

\* SimpleAITutor.add_to_memory, run without interruption
AddToMemory(memory, user_message, ai_response) ==
    LET m == AddRecord(memory, user_message, ai_response)
    IN  IF NeedsTrim(m) THEN Trimmed(m) ELSE m

\* (mutant) clear_memory leaves the memory as it is
ClearMemoryNot(entry) == entry

\* SimpleAITutor.clear_memory
ClearMemory(entry) == [ entry EXCEPT !.memory = <<>> ]

\* (mutant) the except branch stores the fallback like a reply
ExceptMemoryStored(memory, user_message) == AddToMemory(memory, user_message, Fallback)

\* what get_response's except branch does to self.memory: it only builds the
\* fallback string
ExceptMemory(memory, user_message) == memory

\* (mutant) the age test is >= instead of >
OldSessionsInclusive(store, hp, t) ==
    { s \in DOMAIN store : t - hp[store[s]].created_at >= TTL }

\* cleanup_old_sessions: the ids collected in old_sessions
OldSessions(store, hp, t) == { s \in DOMAIN store : t - hp[store[s]].created_at > TTL }

\* cleanup_old_sessions: the store after the del loop
Swept(store, hp, t) == [ s \in DOMAIN store \ OldSessions(store, hp, t) |-> store[s] ]

\* (mutant) chat calls text_to_speech whatever use_voice says
SpeechCalledUnasked(use_voice, key, text) == key /\ Strip(text) # <<>>

\* `use_voice and tts.api_key` of chat, then `not self.api_key or not text.strip()`
\* of text_to_speech: whether requests.post is reached
SpeechCalled(use_voice, key, text) == use_voice /\ key /\ Strip(text) # <<>>

-----------------------------------------------------------------------------
(* SimpleTTS.clean_text.  A text is a sequence of characters; a token that is  *)
(* not one of the characters below stands for one character without meaning.   *)

\* the least position from i on whose character is in C; 0 if there is none
FirstIn(s, C, i) ==
    LET P == { j \in i..Len(s) : s[j] \in C }
    IN  IF P = {} THEN 0 ELSE CHOOSE j \in P : \A k \in P : j <= k

\* the least position from i on whose character is not in C; 0 if there is none
FirstNotIn(s, C, i) ==
    LET P == { j \in i..Len(s) : s[j] \notin C }
    IN  IF P = {} THEN 0 ELSE CHOOSE j \in P : \A k \in P : j <= k

\* the position of the first c at or after j, with no line break before it
\* (what a lazy '.*?' followed by c matches up to); 0 if there is none
Find(s, c, j) ==
    LET k == FirstIn(s, {c, NL}, j)
    IN  IF k # 0 /\ s[k] = c THEN k ELSE 0

\* re.sub(r'd{1,2}(.*?)d{1,2}', r'\1', s) from position i on, for d = '*' or '_':
\* text without d is copied; at a d, the opening run takes two characters if a
\* closing one follows on the line, the group is the shortest possible, and the
\* closing run takes two if it can
RECURSIVE SubEmphasis(_, _, _)
SubEmphasis(s, d, i) ==
    LET n == FirstIn(s, {d}, i)
    IN  IF n = 0 THEN SubSeq(s, i, Len(s))
        ELSE LET two == n + 1 <= Len(s) /\ s[n + 1] = d
                 j2 == IF two THEN Find(s, d, n + 2) ELSE 0
                 g == IF j2 # 0 THEN n + 2 ELSE n + 1
                 j == IF j2 # 0 THEN j2 ELSE Find(s, d, n + 1)
             IN  IF j = 0 THEN SubSeq(s, i, n) \o SubEmphasis(s, d, n + 1)
                 ELSE LET close == IF j + 1 <= Len(s) /\ s[j + 1] = d THEN 2 ELSE 1
                      IN  SubSeq(s, i, n - 1) \o SubSeq(s, g, j - 1)
                              \o SubEmphasis(s, d, j + close)

\* the position of the first ']' at or after j that '(' follows, with no line
\* break before it; 0 if there is none
FindLinkMiddle(s, j) ==
    LET P == { k \in j..(Len(s) - 1) : s[k] = NL \/ (s[k] = "]" /\ s[k + 1] = "(") }
        k == IF P = {} THEN 0 ELSE CHOOSE x \in P : \A y \in P : x <= y
    IN  IF k # 0 /\ s[k] = "]" THEN k ELSE 0

\* re.sub(r'\[.*?\]\(.*?\)', '', s) from position i on
RECURSIVE SubLinks(_, _)
SubLinks(s, i) ==
    LET n == FirstIn(s, {"["}, i)
    IN  IF n = 0 THEN SubSeq(s, i, Len(s))
        ELSE LET j == FindLinkMiddle(s, n + 1)
                 k == IF j = 0 THEN 0 ELSE Find(s, ")", j + 2)
             IN  IF k = 0 THEN SubSeq(s, i, n) \o SubLinks(s, n + 1)
                 ELSE SubSeq(s, i, n - 1) \o SubLinks(s, k + 1)

\* re.sub of the code pattern (backquote, '.*?', backquote) by '', from position
\* i on
RECURSIVE SubCode(_, _)
SubCode(s, i) ==
    LET n == FirstIn(s, {Backquote}, i)
    IN  IF n = 0 THEN SubSeq(s, i, Len(s))
        ELSE LET j == Find(s, Backquote, n + 1)
             IN  IF j = 0 THEN SubSeq(s, i, n) \o SubCode(s, n + 1)
                 ELSE SubSeq(s, i, n - 1) \o SubCode(s, j + 1)

\* s.split() from position i on: the words between runs of whitespace
RECURSIVE Split(_, _)
Split(s, i) ==
    LET b == FirstNotIn(s, Whitespace, i)
    IN  IF b = 0 THEN <<>>
        ELSE LET e == FirstIn(s, Whitespace, b)
             IN  IF e = 0 THEN << SubSeq(s, b, Len(s)) >>
                 ELSE << SubSeq(s, b, e - 1) >> \o Split(s, e)

\* ' '.join(words)
RECURSIVE Join(_)
Join(words) ==
    IF words = <<>> THEN <<>>
    ELSE IF Len(words) = 1 THEN words[1]
    ELSE words[1] \o <<SP>> \o Join(Tail(words))

\* clean_text, lines 181-187: the four substitutions and the whitespace collapse
Cleaned(text) ==
    Join(Split(SubCode(SubLinks(SubEmphasis(SubEmphasis(text, "*", 1), "_", 1), 1), 1), 1))

\* (mutant) the ellipsis is added to the first 500 characters
TruncateAfterLimit(s) ==
    IF Len(s) > MaxSpeechLen THEN SubSeq(s, 1, MaxSpeechLen) \o Ellipsis ELSE s

\* clean_text, lines 190-191
Truncate(s) ==
    IF Len(s) > MaxSpeechLen THEN SubSeq(s, 1, KeepLen) \o Ellipsis ELSE s

\* SimpleTTS.clean_text
CleanText(text) == Strip(Truncate(Cleaned(text)))

-----------------------------------------------------------------------------
(* State *)

IdleLoc ==
    [ kind |-> "idle", user_message |-> <<>>, given_id |-> NoId, session_id |-> NoId,
      language |-> "English", proficiency |-> "beginner", use_voice |-> FALSE,
      tutor |-> 0, ctx |-> <<>>, outcome |-> <<>>, ai_response |-> <<>>,
      tmp |-> <<>>, bot_response |-> <<>>, payload_text |-> PyNone, audio_data |-> PyNone,
      status |-> 0,
      called |-> {} ]

\* user_sessions = {}
EmptyStore == [ s \in {} |-> 0 ]

NoSnap == [ user_sessions |-> EmptyStore, heap |-> <<>> ]

\* the memory of a session after MemoryCap answered turns
WarmMemory == [ i \in 1..MemoryCap |-> [ user |-> <<"w" \o ToString(i)>>, ai |-> <<"re", SP>> ] ]

WarmHist == [ i \in 1..MemoryCap |-> [ user |-> WarmMemory[i].user, ai |-> WarmMemory[i].ai,
                                      stored |-> TRUE ] ]

\* The process has just been started (Cold); or, so that bounded runs meet a full
\* memory, it has already answered MemoryCap turns of session "a", created with
\* the defaults at time 0 (Warm).  SpecTurns reaches such a store from Cold, turn
\* by turn (C9_Witness); the messages "w1".."w10" stand for those earlier turns.
Cold ==
    /\ phase = "startup"
    /\ heap = <<>>
    /\ user_sessions = EmptyStore
    /\ hist = <<>>

Warm ==
    /\ groq_api_key
    /\ phase = "serving"
    /\ heap = << [ NewEntry("English", "beginner", 0, deepgram_api_key)
                   EXCEPT !.memory = WarmMemory ] >>
    /\ user_sessions = Bind(EmptyStore, "a", 1)
    /\ hist = << WarmHist >>

Init ==
    /\ groq_api_key \in BOOLEAN
    /\ deepgram_api_key \in BOOLEAN
    /\ now = 0
    /\ next_uuid = 0
    /\ nreq = 0
    /\ pc = [ t \in Threads |-> "idle" ]
    /\ loc = [ t \in Threads |-> IdleLoc ]
    /\ snap = [ t \in Threads |-> NoSnap ]
    /\ removed = {}
    /\ (Cold \/ Warm)

\* The first turn of session "a", asked with voice on a fresh process with both
\* keys, has got the reply `text` and stored it; chat is about to call
\* text_to_speech
Replied(text) ==
    /\ groq_api_key = TRUE /\ deepgram_api_key = TRUE
    /\ phase = "serving"
    /\ now = 0
    /\ next_uuid = 0
    /\ nreq = 1
    /\ heap = << [ NewEntry("English", "beginner", 0, TRUE)
                   EXCEPT !.memory = AddToMemory(<<>>, <<Word(1)>>, text) ] >>
    /\ user_sessions = Bind(EmptyStore, "a", 1)
    /\ hist = << << [ user |-> <<Word(1)>>, ai |-> text, stored |-> TRUE ] >> >>
    /\ pc = [ t \in Threads |-> IF t = "t1" THEN "tts" ELSE "idle" ]
    /\ loc = [ t \in Threads |->
                IF t = "t1"
                THEN [ IdleLoc EXCEPT !.kind = "chat", !.user_message = <<Word(1)>>,
                                      !.given_id = "a", !.session_id = "a",
                                      !.use_voice = TRUE, !.tutor = 1,
                                      !.ctx = MemoryContext(<<>>),
                                      !.outcome = text, !.ai_response = text,
                                      !.bot_response = Strip(text),
                                      !.called = {"completion"} ]
                ELSE IdleLoc ]
    /\ snap = [ t \in Threads |-> NoSnap ]
    /\ removed = {}

env == <<groq_api_key, deepgram_api_key>>

Snapshot == [ user_sessions |-> user_sessions, heap |-> heap ]

\* a handler returns with `status` (the rest of the response is in loc)
Finish(t, l, status) ==
    /\ loc' = [ loc EXCEPT ![t] = [ l EXCEPT !.status = status ] ]
    /\ pc' = [ pc EXCEPT ![t] = "done" ]

Goto(t, l, label) ==
    /\ loc' = [ loc EXCEPT ![t] = l ]
    /\ pc' = [ pc EXCEPT ![t] = label ]

-----------------------------------------------------------------------------
(* chat: POST /api/chat *)

\* (mutant) the empty message is rejected only after the session was looked up
\* or created
ChatRejectLate(t, limit, rec, raw) ==
    /\ phase = "serving" /\ pc[t] = "idle" /\ nreq < limit
    /\ Strip(raw) = <<>>
    /\ nreq' = nreq + 1
    /\ snap' = [ snap EXCEPT ![t] = IF rec THEN Snapshot ELSE NoSnap ]
    /\ IF IsUnknown("a", user_sessions) /\ groq_api_key
       THEN /\ heap' = Append(heap, NewEntry("English", "beginner", now, deepgram_api_key))
            /\ hist' = Append(hist, <<>>)
            /\ user_sessions' = Bind(user_sessions, "a", Len(heap) + 1)
       ELSE UNCHANGED <<heap, hist, user_sessions>>
    /\ Finish(t, [ IdleLoc EXCEPT !.kind = "chat", !.user_message = Strip(raw) ], 400)
    /\ UNCHANGED <<env, removed, phase, now, next_uuid>>

\* lines 221-229: the request is parsed; a message that is empty after strip()
\* is answered 400 at once
ChatReject(t, limit, rec, raw) ==
    /\ phase = "serving" /\ pc[t] = "idle" /\ nreq < limit
    /\ Strip(raw) = <<>>
    /\ nreq' = nreq + 1
    /\ snap' = [ snap EXCEPT ![t] = IF rec THEN Snapshot ELSE NoSnap ]
    /\ Finish(t, [ IdleLoc EXCEPT !.kind = "chat", !.user_message = Strip(raw) ], 400)
    /\ UNCHANGED <<env, removed, phase, now, heap, user_sessions, next_uuid, hist>>

\* lines 221-232: the request is parsed and, without a session id, one is drawn
ChatBegin(t, limit, rec, raw, sid, language, proficiency, use_voice) ==
    /\ phase = "serving" /\ pc[t] = "idle" /\ nreq < limit
    /\ Strip(raw) # <<>>
    /\ nreq' = nreq + 1
    /\ snap' = [ snap EXCEPT ![t] = IF rec THEN Snapshot ELSE NoSnap ]
    /\ next_uuid' = IF sid \in {NoId, ""} THEN next_uuid + 1 ELSE next_uuid
    /\ Goto(t, [ IdleLoc EXCEPT !.kind = "chat", !.user_message = Strip(raw),
                                !.given_id = sid,
                                !.session_id = IF sid \in {NoId, ""}
                                               THEN Uuid(next_uuid + 1) ELSE sid,
                                !.language = language, !.proficiency = proficiency,
                                !.use_voice = use_voice ], "goc_check")
    /\ UNCHANGED <<env, removed, phase, now, heap, user_sessions, hist>>

\* get_or_create_session, line 197
GocCheck(t) ==
    /\ pc[t] = "goc_check"
    /\ Goto(t, loc[t], IF IsUnknown(loc[t].session_id, user_sessions)
                       THEN "goc_create" ELSE "goc_return")
    /\ UNCHANGED <<env, removed, phase, now, heap, user_sessions, next_uuid, nreq, snap, hist>>

\* get_or_create_session, lines 198-202: SimpleAITutor.__init__ raises without
\* GROQ_API_KEY (chat answers 500); otherwise the new dict is stored
GocCreate(t) ==
    /\ pc[t] = "goc_create"
    /\ IF groq_api_key
       THEN /\ heap' = Append(heap, NewEntry(loc[t].language, loc[t].proficiency,
                                             now, deepgram_api_key))
            /\ hist' = Append(hist, <<>>)
            /\ user_sessions' = Bind(user_sessions, loc[t].session_id, Len(heap) + 1)
            /\ Goto(t, loc[t], "goc_return")
       ELSE /\ Finish(t, loc[t], 500)
            /\ UNCHANGED <<heap, hist, user_sessions>>
    /\ UNCHANGED <<env, removed, phase, now, next_uuid, nreq, snap>>

\* get_or_create_session, line 203, and chat, lines 236-237: the lookup raises
\* KeyError when the id is gone (chat answers 500)
GocReturn(t) ==
    /\ pc[t] = "goc_return"
    /\ IF loc[t].session_id \in DOMAIN user_sessions
       THEN Goto(t, [ loc[t] EXCEPT !.tutor = user_sessions[loc[t].session_id] ], "prompt")
       ELSE Finish(t, loc[t], 500)
    /\ UNCHANGED <<env, removed, phase, now, heap, user_sessions, next_uuid, nreq, snap, hist>>

\* (mutant) the user message is stored before the prompt is built
PromptAfterStore(t) ==
    /\ pc[t] = "prompt"
    /\ LET o == loc[t].tutor
           m == AddRecord(heap[o].memory, loc[t].user_message, <<>>)
       IN  /\ heap' = [ heap EXCEPT ![o].memory = m ]
           /\ Goto(t, [ loc[t] EXCEPT !.ctx = MemoryContext(m) ], "call")
    /\ UNCHANGED <<env, removed, phase, now, user_sessions, next_uuid, nreq, snap, hist>>

\* get_response, lines 95-104: get_system_prompt reads the memory
Prompt(t) ==
    /\ pc[t] = "prompt"
    /\ Goto(t, [ loc[t] EXCEPT !.ctx = MemoryContext(heap[loc[t].tutor].memory) ], "call")
    /\ UNCHANGED <<env, removed, phase, now, heap, user_sessions, next_uuid, nreq, snap, hist>>

\* get_response, lines 107-118 and 125-127: the provider call either raises
\* (anything up to choices[0].message.content), and the except branch builds the
\* fallback, or yields the content
Call(t, out) ==
    /\ pc[t] = "call"
    /\ LET l == [ loc[t] EXCEPT !.outcome = out, !.called = @ \cup {"completion"} ]
           o == loc[t].tutor
       IN  IF out = RAISE
           THEN /\ heap' = [ heap EXCEPT ![o].memory = ExceptMemory(@, l.user_message) ]
                /\ hist' = [ hist EXCEPT ![o] = Append(@, [ user |-> l.user_message,
                                                           ai |-> Fallback,
                                                           stored |-> FALSE ]) ]
                /\ Goto(t, [ l EXCEPT !.bot_response = Fallback ], "tts")
           ELSE /\ Goto(t, [ l EXCEPT !.ai_response = out ], "append")
                /\ UNCHANGED <<heap, hist>>
    /\ UNCHANGED <<env, removed, phase, now, user_sessions, next_uuid, nreq, snap>>

\* (mutant) storing an exchange also stamps the entry with the time of the turn
MemAppendTouch(t) ==
    /\ pc[t] = "append"
    /\ LET o == loc[t].tutor
       IN  /\ heap' = [ heap EXCEPT ![o].memory =
                            AddRecord(@, loc[t].user_message, loc[t].ai_response),
                                    ![o].created_at = now ]
           /\ hist' = [ hist EXCEPT ![o] = Append(@, [ user |-> loc[t].user_message,
                                                      ai |-> loc[t].ai_response,
                                                      stored |-> TRUE ]) ]
    /\ Goto(t, loc[t], "lencheck")
    /\ UNCHANGED <<env, removed, phase, now, user_sessions, next_uuid, nreq, snap>>

\* add_to_memory, lines 74-77
MemAppend(t) ==
    /\ pc[t] = "append"
    /\ LET o == loc[t].tutor
       IN  /\ heap' = [ heap EXCEPT ![o].memory =
                            AddRecord(@, loc[t].user_message, loc[t].ai_response) ]
           /\ hist' = [ hist EXCEPT ![o] = Append(@, [ user |-> loc[t].user_message,
                                                      ai |-> loc[t].ai_response,
                                                      stored |-> TRUE ]) ]
    /\ Goto(t, loc[t], "lencheck")
    /\ UNCHANGED <<env, removed, phase, now, user_sessions, next_uuid, nreq, snap>>

\* add_to_memory, line 79
MemLenCheck(t) ==
    /\ pc[t] = "lencheck"
    /\ Goto(t, loc[t], IF NeedsTrim(heap[loc[t].tutor].memory) THEN "trim_read" ELSE "strip")
    /\ UNCHANGED <<env, removed, phase, now, heap, user_sessions, next_uuid, nreq, snap, hist>>

\* add_to_memory, line 80, right-hand side: self.memory[-10:]
MemTrimRead(t) ==
    /\ pc[t] = "trim_read"
    /\ Goto(t, [ loc[t] EXCEPT !.tmp = Trimmed(heap[loc[t].tutor].memory) ], "trim_write")
    /\ UNCHANGED <<env, removed, phase, now, heap, user_sessions, next_uuid, nreq, snap, hist>>

\* add_to_memory, line 80, the assignment to self.memory
MemTrimWrite(t) ==
    /\ pc[t] = "trim_write"
    /\ heap' = [ heap EXCEPT ![loc[t].tutor].memory = loc[t].tmp ]
    /\ Goto(t, [ loc[t] EXCEPT !.tmp = <<>> ], "strip")
    /\ UNCHANGED <<env, removed, phase, now, user_sessions, next_uuid, nreq, snap, hist>>

\* get_response, line 123: None has no strip(); the AttributeError is caught by
\* the except branch of lines 125-127
StripReply(t) ==
    /\ pc[t] = "strip"
    /\ Goto(t, [ loc[t] EXCEPT !.bot_response = IF loc[t].ai_response = PyNone
                                                THEN Fallback
                                                ELSE Strip(loc[t].ai_response) ], "tts")
    /\ UNCHANGED <<env, removed, phase, now, heap, user_sessions, next_uuid, nreq, snap, hist>>

\* chat, lines 243-253, and text_to_speech: the Speech Provider answers 200
\* (ok) or fails; every failure yields None
Speak(t, ok) ==
    /\ pc[t] = "tts"
    /\ LET l == loc[t]
           post == SpeechCalled(l.use_voice, heap[l.tutor].api_key, l.bot_response)
       IN  Finish(t, [ l EXCEPT !.called = IF post THEN @ \cup {"speech"} ELSE @,
                                !.payload_text = IF post THEN CleanText(l.bot_response)
                                                 ELSE PyNone,
                                !.audio_data = IF post /\ ok THEN AudioB64 ELSE PyNone ],
                  200)
    /\ UNCHANGED <<env, removed, phase, now, heap, user_sessions, next_uuid, nreq, snap, hist>>

\* the response is sent; the worker thread is free again
Return(t) ==
    /\ pc[t] = "done"
    /\ pc' = [ pc EXCEPT ![t] = "idle" ]
    /\ loc' = [ loc EXCEPT ![t] = IdleLoc ]
    /\ snap' = [ snap EXCEPT ![t] = NoSnap ]
    /\ UNCHANGED <<env, removed, phase, now, heap, user_sessions, next_uuid, nreq, hist>>

-----------------------------------------------------------------------------
(* new_session: POST /api/session/new *)

\* lines 263-273: an id is drawn, the objects are built (SimpleAITutor.__init__
\* raises without GROQ_API_KEY: 500) and stored under the id
NewSession(t, limit, rec, language, proficiency) ==
    /\ phase = "serving" /\ pc[t] = "idle" /\ nreq < limit
    /\ nreq' = nreq + 1
    /\ snap' = [ snap EXCEPT ![t] = IF rec THEN Snapshot ELSE NoSnap ]
    /\ next_uuid' = next_uuid + 1
    /\ LET l == [ IdleLoc EXCEPT !.kind = "new", !.session_id = Uuid(next_uuid + 1),
                                 !.language = language, !.proficiency = proficiency ]
       IN  IF groq_api_key
           THEN /\ heap' = Append(heap, NewEntry(language, proficiency, now, deepgram_api_key))
                /\ hist' = Append(hist, <<>>)
                /\ user_sessions' = Bind(user_sessions, l.session_id, Len(heap) + 1)
                /\ Finish(t, [ l EXCEPT !.tutor = Len(heap) + 1 ], 200)
           ELSE /\ Finish(t, l, 500)
                /\ UNCHANGED <<heap, hist, user_sessions>>
    /\ UNCHANGED <<env, removed, phase, now>>

-----------------------------------------------------------------------------
(* reset_session: POST /api/session/reset *)

\* lines 294-301: the membership test; an unknown id is answered 404
ResetBegin(t, limit, rec, sid) ==
    /\ phase = "serving" /\ pc[t] = "idle" /\ nreq < limit
    /\ nreq' = nreq + 1
    /\ snap' = [ snap EXCEPT ![t] = IF rec THEN Snapshot ELSE NoSnap ]
    /\ LET l == [ IdleLoc EXCEPT !.kind = "reset", !.given_id = sid, !.session_id = sid ]
       IN  IF sid \in DOMAIN user_sessions
           THEN Goto(t, l, "reset_clear")
           ELSE Finish(t, l, 404)
    /\ UNCHANGED <<env, removed, phase, now, heap, user_sessions, next_uuid, hist>>

\* line 298: user_sessions[session_id]['ai_tutor'].clear_memory(); the lookup
\* raises KeyError when the id is gone (500)
ResetClear(t) ==
    /\ pc[t] = "reset_clear"
    /\ IF loc[t].session_id \in DOMAIN user_sessions
       THEN LET o == user_sessions[loc[t].session_id]
            IN  /\ heap' = [ heap EXCEPT ![o] = ClearMemory(@) ]
                /\ hist' = [ hist EXCEPT ![o] = <<>> ]
                /\ Finish(t, [ loc[t] EXCEPT !.tutor = o ], 200)
       ELSE /\ Finish(t, loc[t], 500)
            /\ UNCHANGED <<heap, hist>>
    /\ UNCHANGED <<env, removed, phase, now, user_sessions, next_uuid, nreq, snap>>

-----------------------------------------------------------------------------
(* The clock, the startup and the sweep *)

\* time passes between requests (a handler reads the clock once, at line 201
\* or 271, so time passing inside a handler adds nothing)
Tick(d) ==
    /\ \A t \in Threads : pc[t] = "idle"
    /\ now + d <= MaxTime
    /\ now' = now + d
    /\ UNCHANGED <<env, removed, phase, heap, user_sessions, next_uuid, nreq, pc, loc, snap, hist>>

\* (mutant) the sweep also runs again while the server runs
StartupAgain ==
    /\ phase \in {"startup", "serving"}
    /\ phase' = "serving"
    /\ user_sessions' = Swept(user_sessions, heap, now)
    /\ removed' = removed \cup OldSessions(user_sessions, heap, now)
    /\ UNCHANGED <<env, now, heap, next_uuid, nreq, pc, loc, snap, hist>>

\* __main__, lines 359-362: cleanup_old_sessions() and then app.run()
Startup ==
    /\ phase = "startup"
    /\ phase' = "serving"
    /\ user_sessions' = Swept(user_sessions, heap, now)
    /\ removed' = removed \cup OldSessions(user_sessions, heap, now)
    /\ UNCHANGED <<env, now, heap, next_uuid, nreq, pc, loc, snap, hist>>

\* cleanup_old_sessions called while the server runs (the scheduled cleanup of
\* lines 349-353, which the source leaves commented out)
Cleanup ==
    /\ phase = "serving"
    /\ user_sessions' = Swept(user_sessions, heap, now)
    /\ removed' = removed \cup OldSessions(user_sessions, heap, now)
    /\ UNCHANGED <<env, phase, now, heap, next_uuid, nreq, pc, loc, snap, hist>>

-----------------------------------------------------------------------------------------------------------------------------------------------------------------------------------------------------------------------------
(* Specifications *)

\* the ids drawn by uuid4() for requests that have not been answered yet
Undisclosed ==
    { loc[t].session_id : t \in { u \in Threads : /\ pc[u] # "idle"
                                                   /\ loc[u].kind \in {"chat", "new"}
                                                   /\ loc[u].given_id = NoId } }

\* the session ids a caller can send: made up, or received in a response
KnownIds == CallerIds \cup ({ Uuid(k) : k \in 1..next_uuid } \ Undisclosed)

\* the (language, proficiency) pairs callers send: the defaults and another
Configs == { <<"English", "beginner">>, <<"Spanish", "advanced">> }

\* the values of 'session_id' a caller can send
SentIds == KnownIds \cup {NoId}

\* The program: __main__ and then the threaded server of app.run.  Two requests
\* are handled at once; callers do not ask for voice; the clock jumps past the
\* expiry age.
Next ==
    \/ Startup
    \/ Tick(MaxTime)
    \/ \E t \in Threads :
        \/ \E raw \in RawMessages(nreq + 1) : ChatReject(t, MaxReqsConc, FALSE, raw)
        \/ \E raw \in RawMessages(nreq + 1), sid \in SentIds, c \in Configs :
                ChatBegin(t, MaxReqsConc, FALSE, raw, sid, c[1], c[2], FALSE)
        \/ \E c \in Configs : NewSession(t, MaxReqsConc, FALSE, c[1], c[2])
        \/ \E sid \in SentIds : ResetBegin(t, MaxReqsConc, FALSE, sid)
        \/ GocCheck(t) \/ GocCreate(t) \/ GocReturn(t) \/ Prompt(t)
        \/ \E out \in Outcomes : Call(t, out)
        \/ MemAppend(t) \/ MemLenCheck(t) \/ MemTrimRead(t) \/ MemTrimWrite(t)
        \/ StripReply(t)
        \/ \E ok \in BOOLEAN : Speak(t, ok)
        \/ ResetClear(t)
        \/ Return(t)

Spec == Init /\ [][Next]_vars

\* The program serving one request at a time (one worker thread)
NextSeq ==
    \/ Startup
    \/ Tick(MaxTime)
    \/ \E raw \in RawMessages(nreq + 1) : ChatReject("t1", MaxReqs, TRUE, raw)
    \/ \E raw \in RawMessages(nreq + 1), sid \in SentIds, c \in Configs,
          use_voice \in BOOLEAN :
            ChatBegin("t1", MaxReqs, TRUE, raw, sid, c[1], c[2], use_voice)
    \/ \E c \in Configs : NewSession("t1", MaxReqs, TRUE, c[1], c[2])
    \/ \E sid \in SentIds : ResetBegin("t1", MaxReqs, TRUE, sid)
    \/ GocCheck("t1") \/ GocCreate("t1") \/ GocReturn("t1") \/ Prompt("t1")
    \/ \E out \in Outcomes : Call("t1", out)
    \/ MemAppend("t1") \/ MemLenCheck("t1") \/ MemTrimRead("t1") \/ MemTrimWrite("t1")
    \/ StripReply("t1")
    \/ \E ok \in BOOLEAN : Speak("t1", ok)
    \/ ResetClear("t1")
    \/ Return("t1")

SpecSeq == Init /\ [][NextSeq]_vars

\* One caller talking to session "a", turn after turn, with the defaults
NextTurns ==
    \/ Startup
    \/ \E raw \in RawMessages(nreq + 1) \ {<<>>, <<SP>>} :
            ChatBegin("t1", MaxTurns, TRUE, raw, "a", "English", "beginner", FALSE)
    \/ GocCheck("t1") \/ GocCreate("t1") \/ GocReturn("t1") \/ Prompt("t1")
    \/ \E out \in { <<"re", SP>>, RAISE } : Call("t1", out)
    \/ MemAppend("t1") \/ MemLenCheck("t1") \/ MemTrimRead("t1") \/ MemTrimWrite("t1")
    \/ StripReply("t1")
    \/ Speak("t1", TRUE)
    \/ Return("t1")

SpecTurns == Init /\ [][NextTurns]_vars

\* The serial program with cleanup_old_sessions also run while it serves, as the
\* scheduled cleanup would; the clock advances in steps of half the expiry age
NextSweep ==
    \/ Startup
    \/ Tick(Quantum)
    \/ Cleanup
    \/ \E raw \in RawMessages(nreq + 1), sid \in SentIds :
            ChatBegin("t1", MaxReqs, TRUE, raw, sid, "English", "beginner", FALSE)
    \/ NewSession("t1", MaxReqs, TRUE, "English", "beginner")
    \/ \E sid \in SentIds : ResetBegin("t1", MaxReqs, TRUE, sid)
    \/ GocCheck("t1") \/ GocCreate("t1") \/ GocReturn("t1") \/ Prompt("t1")
    \/ \E out \in Outcomes : Call("t1", out)
    \/ MemAppend("t1") \/ MemLenCheck("t1") \/ MemTrimRead("t1") \/ MemTrimWrite("t1")
    \/ StripReply("t1")
    \/ Speak("t1", TRUE)
    \/ ResetClear("t1")
    \/ Return("t1")

SpecSweep == Init /\ [][NextSweep]_vars

\* the characters clean_text's patterns and split() tell apart, and a letter
Alphabet == { "*", "_", "[", "]", "(", ")", Backquote, SP, NL, "a" }

Repeat(c, n) == [ i \in 1..n |-> c ]

\* every reply of up to MaxTextLen characters
ShortTexts == UNION { [ 1..n -> Alphabet ] : n \in 0..MaxTextLen }

\* a link and a code span; a code span between the two halves of a link
MarkupTexts ==
    { <<"[", "a", "]", "(", "b", ")", SP, Backquote, "x", Backquote>>,
      <<"[", "a", "]", Backquote, "x", Backquote, "(", "b", ")">> }

\* replies about as long as the limit: plain, emphasised, and with a blank as
\* the last character kept
LongTexts ==
    UNION { { Repeat("a", n),
              <<"*", "*">> \o Repeat("a", n) \o <<"*", "*">>,
              Repeat("a", KeepLen - 1) \o <<SP>> \o Repeat("a", n - KeepLen) } :
            n \in (MaxSpeechLen - 1)..(MaxSpeechLen + LongMargin) }

ReplyTexts == ShortTexts \cup MarkupTexts \cup LongTexts

InitSpoken == \E text \in ReplyTexts : Replied(text)

\* text_to_speech applied to the replies the Completion Provider can give
NextSpoken ==
    \/ \E ok \in BOOLEAN : Speak("t1", ok)
    \/ Return("t1")

SpecSpoken == InitSpoken /\ [][NextSpoken]_vars

-----------------------------------------------------------------------------
(* Properties *)

\* the session_data object thread t works on, and its memory
Mem(t) == heap[loc[t].tutor].memory

\* the memory of that object when t's request began (empty if the request
\* created the object)
PreMem(t) ==
    IF loc[t].tutor \in DOMAIN snap[t].heap THEN snap[t].heap[loc[t].tutor].memory ELSE <<>>

\* t has answered a chat turn whose message was not empty and whose provider
\* call was made
TurnDone(t) == pc[t] = "done" /\ loc[t].kind = "chat" /\ "completion" \in loc[t].called

\* the provider call of t's turn failed: it raised, or its payload had no text
ProviderFailed(t) == loc[t].outcome \in {RAISE, PyNone}

IsStored(r) == r.stored

\* the exchanges appended to object o since its last clear_memory, in order
StoredLog(o) ==
    LET a == SelectSeq(hist[o], IsStored)
    IN  [ i \in 1..Len(a) |-> [ user |-> a[i].user, ai |-> a[i].ai ] ]

\* C1 (as claimed): a turn whose provider call fails answers 200 with the
\* fallback reply, and (user message, fallback) is appended to the memory like
\* a normal reply.
C1_FallbackStored ==
    \A t \in Threads :
        TurnDone(t) /\ ProviderFailed(t) =>
            /\ loc[t].status = 200
            /\ loc[t].bot_response = Fallback
            /\ Mem(t) = AddToMemory(PreMem(t), loc[t].user_message, Fallback)

\* C1 (amended): a turn whose provider call fails answers 200 with the fallback
\* reply, and the fallback is not stored: the memory is unchanged when the call
\* raised, and gains (user message, None) when the payload had no text.
C1_FallbackNotStored ==
    \A t \in Threads :
        TurnDone(t) /\ ProviderFailed(t) =>
            /\ loc[t].status = 200
            /\ loc[t].bot_response = Fallback
            /\ Mem(t) = IF loc[t].outcome = RAISE
                        THEN PreMem(t)
                        ELSE AddToMemory(PreMem(t), loc[t].user_message, PyNone)

\* C1 witness: a turn on a session with stored exchanges has ended after its
\* provider call raised.
C1_Witness ==
    \E t \in Threads :
        TurnDone(t) /\ loc[t].outcome = RAISE /\ PreMem(t) # <<>> /\ loc[t].status = 200

\* a turn between reading the context for its prompt and the end of
\* add_to_memory
InTurnSection(t) ==
    loc[t].kind = "chat" /\ pc[t] \in {"call", "append", "lencheck", "trim_read", "trim_write"}

\* a reset between its membership test and clear_memory
InResetSection(t) == loc[t].kind = "reset" /\ pc[t] = "reset_clear"

\* C2 (as claimed): for one session id at most one turn or reset is inside its
\* mutation section at any time.
C2_OneInFlight ==
    \A t, u \in Threads :
        t # u /\ InTurnSection(t) /\ (InTurnSection(u) \/ InResetSection(u))
            => loc[t].session_id # loc[u].session_id

\* C3 (as claimed): the entry a turn obtained from get_or_create_session is the
\* entry the store holds for its id, so two turns with the same id work on the
\* same entry.
C3_OneEntryPerId ==
    \A t \in Threads :
        loc[t].kind = "chat" /\ loc[t].tutor # 0 =>
            /\ loc[t].session_id \in DOMAIN user_sessions
            /\ user_sessions[loc[t].session_id] = loc[t].tutor

\* no add_to_memory is under way on object o
AddComplete(o) ==
    \A t \in Threads : pc[t] \in {"lencheck", "trim_read", "trim_write"} => loc[t].tutor # o

KnownReturned(t) ==
    /\ loc[t].kind = "chat" /\ pc[t] = "prompt"
    /\ loc[t].session_id \in DOMAIN snap[t].user_sessions

\* C5: get_or_create_session with a known id returns the entry the store held,
\* and leaves the store and every entry (language, proficiency, created_at,
\* memory) as they were, whatever language and proficiency are passed.
C5_GetOrCreateIdempotent ==
    \A t \in Threads :
        KnownReturned(t) =>
            /\ loc[t].tutor = snap[t].user_sessions[loc[t].session_id]
            /\ user_sessions = snap[t].user_sessions
            /\ heap = snap[t].heap

\* C5 witness: the call returned for a known id although the request named
\* another language and another proficiency than the entry has.
C5_Witness ==
    \E t \in Threads :
        /\ KnownReturned(t)
        /\ loc[t].language # heap[loc[t].tutor].language
        /\ loc[t].proficiency # heap[loc[t].tutor].proficiency
        /\ heap[loc[t].tutor].memory # <<>>

ResetDone(t) == pc[t] = "done" /\ loc[t].kind = "reset"

\* C6: a reset of a known id answers 200 and changes nothing but that entry's
\* memory, which is empty afterwards; a reset of an unknown id answers 404 and
\* changes nothing.
C6_Reset ==
    \A t \in Threads :
        ResetDone(t) =>
            IF loc[t].session_id \in DOMAIN snap[t].user_sessions
            THEN /\ loc[t].status = 200
                 /\ user_sessions = snap[t].user_sessions
                 /\ heap = [ snap[t].heap EXCEPT
                                ![snap[t].user_sessions[loc[t].session_id]].memory = <<>> ]
            ELSE /\ loc[t].status = 404
                 /\ user_sessions = snap[t].user_sessions
                 /\ heap = snap[t].heap

\* C6 witness: a reset has emptied a memory that held exchanges.
C6_Witness ==
    \E t \in Threads :
        /\ ResetDone(t) /\ loc[t].status = 200
        /\ PreMem(t) # <<>> /\ Mem(t) = <<>>

\* created_at of the entry bound to s
CreatedAt(s) == heap[user_sessions[s]].created_at

\* C7: a run of cleanup_old_sessions removes exactly the ids whose age is more
\* than 7200 s, leaves the other bindings and all entries as they are, and leaves
\* nothing for a second run at the same clock reading to remove.
C7_SweepExact ==
    [][ Cleanup =>
          /\ DOMAIN user_sessions' = { s \in DOMAIN user_sessions : now - CreatedAt(s) <= TTL }
          /\ \A s \in DOMAIN user_sessions' : user_sessions'[s] = user_sessions[s]
          /\ heap' = heap
          /\ \A s \in DOMAIN user_sessions' :
                 ~(now' - heap'[user_sessions'[s]].created_at > TTL) ]_vars

\* C7 witness: an entry older than 7200 s is gone from the store while an entry
\* of age exactly 7200 s is still bound.
C7_Witness ==
    /\ \E o \in DOMAIN heap :
          /\ now - heap[o].created_at > TTL
          /\ \A s \in DOMAIN user_sessions : user_sessions[s] # o
    /\ \E s \in DOMAIN user_sessions : now - CreatedAt(s) = TTL

\* C8: a turn whose message is empty after strip() answers 400 without a
\* provider call, without creating an entry and without changing any memory.
C8_EmptyRejected ==
    \A t \in Threads :
        pc[t] = "done" /\ loc[t].kind = "chat" /\ loc[t].user_message = <<>> =>
            /\ loc[t].status = 400
            /\ loc[t].called = {}
            /\ user_sessions = snap[t].user_sessions
            /\ heap = snap[t].heap

\* C8 witness: an empty message was rejected while a session with stored
\* exchanges exists.
C8_Witness ==
    \E t \in Threads :
        /\ pc[t] = "done" /\ loc[t].kind = "chat" /\ loc[t].status = 400
        /\ \E s \in DOMAIN user_sessions : heap[user_sessions[s]].memory # <<>>

\* no request is being handled
Quiet == \A t \in Threads : pc[t] \in {"idle", "done"}

\* the first exchange is among the given records
HasFirst(o, records) ==
    \E i \in 1..Len(records) : records[i].user = hist[o][1].user

AllAnswered(o) == \A i \in 1..Len(hist[o]) : hist[o][i].stored

C10_SpeechNeverFails ==
    \A t \in Threads :
        TurnDone(t) =>
            /\ loc[t].status = 200
            /\ loc[t].bot_response = IF ProviderFailed(t) THEN Fallback
                                     ELSE Strip(loc[t].outcome)
            /\ "speech" \in loc[t].called =>
                 loc[t].use_voice /\ heap[loc[t].tutor].api_key
            /\ ~(loc[t].use_voice /\ heap[loc[t].tutor].api_key) =>
                 loc[t].audio_data = PyNone
            /\ loc[t].audio_data # PyNone => "speech" \in loc[t].called
            /\ Mem(t) = IF loc[t].outcome = RAISE
                        THEN PreMem(t)
                        ELSE AddToMemory(PreMem(t), loc[t].user_message, loc[t].outcome)

\* C10 witness: voice was requested, the Speech Provider was called and failed,
\* and the turn answered 200 without audio.
C10_Witness ==
    \E t \in Threads :
        /\ TurnDone(t) /\ loc[t].use_voice /\ "speech" \in loc[t].called
        /\ loc[t].audio_data = PyNone /\ loc[t].status = 200

\* C11: the context get_memory_context returns holds at most 3 records, and
\* they are the most recent min(3, length) records of the memory in
\* chronological order; for the empty memory it is the start-of-conversation
\* sentence and no transcript.
C11_RecentContext ==
    \A t \in Threads :
        pc[t] = "call" =>
            LET m == Mem(t)
                k == Min(ContextLen, Len(m))
                ctx == loc[t].ctx
            IN  IF m = <<>>
                THEN ctx = << <<"This is the start of the conversation.">> >>
                ELSE /\ Len(ctx) = 2 * k
                     /\ k <= ContextLen
                     /\ \A i \in 1..k :
                            /\ ctx[2 * i - 1] = <<"User:">> \o m[Len(m) - k + i].user
                            /\ ctx[2 * i] = <<"AI:">> \o m[Len(m) - k + i].ai

\* C11 witness: the context was built from a memory of more than 3 records, and
\* its first line is not the oldest record's.
C11_Witness ==
    \E t \in Threads :
        /\ pc[t] = "call"
        /\ Len(Mem(t)) > ContextLen
        /\ Len(loc[t].ctx) = 2 * ContextLen
        /\ loc[t].ctx[1] # <<"User:">> \o Mem(t)[1].user

\* the text of t's turn was sent to the Speech Provider
Spoken(t) == pc[t] = "done" /\ "speech" \in loc[t].called

\* C12 (as claimed): for a text whose cleaned form has at most 500 characters,
\* cleaning the cleaned text again gives the cleaned text.
C12_CleanIdempotent ==
    \A t \in Threads :
        Spoken(t) /\ Len(Cleaned(loc[t].bot_response)) <= MaxSpeechLen =>
            CleanText(loc[t].payload_text) = loc[t].payload_text

\* t's turn has built its system prompt
PromptBuilt(t) == loc[t].kind = "chat" /\ loc[t].ctx # <<>>

\* the memory holds a record of t's own message
OwnStored(t) == \E i \in 1..Len(Mem(t)) : Mem(t)[i].user = loc[t].user_message

\* C13: the context in a turn's system prompt is built from the memory as it
\* was before the turn: it is the transcript of the last up to 3 exchanges
\* stored then (the sentence for none) and has no line of the turn's own
\* message; up to the provider call the memory is as before the turn, and the
\* turn's record is stored only after the provider was called.
C13_PromptBeforeAppend ==
    \A t \in Threads :
        PromptBuilt(t) =>
            /\ loc[t].ctx = IF PreMem(t) = <<>>
                            THEN << <<"This is the start of the conversation.">> >>
                            ELSE Transcript(LastN(PreMem(t), ContextLen))
            /\ \A i \in 1..Len(loc[t].ctx) : loc[t].ctx[i] # <<"User:">> \o loc[t].user_message
            /\ pc[t] = "call" => Mem(t) = PreMem(t)
            /\ OwnStored(t) => "completion" \in loc[t].called

\* C13 witness: a turn on a session with stored exchanges was answered and its
\* record stored, and its prompt shows the exchanges from before the turn.
C13_Witness ==
    \E t \in Threads :
        /\ TurnDone(t) /\ PromptBuilt(t) /\ OwnStored(t)
        /\ Len(PreMem(t)) >= ContextLen
        /\ Len(loc[t].ctx) = 2 * ContextLen
        /\ loc[t].ctx[2 * ContextLen - 1] = <<"User:">> \o PreMem(t)[Len(PreMem(t))].user

\* t's turn got a reply from the provider and has been answered
Answered(t) == TurnDone(t) /\ ~ProviderFailed(t) /\ loc[t].status = 200

\* C14 (as claimed): when two turns work on the same session at the same time
\* and both get a reply, then after both are answered the memory of the session
\* holds the exchange of each of them.
C14_NoLostExchange ==
    \A t, u \in Threads :
        /\ t # u /\ Answered(t) /\ Answered(u)
        /\ loc[t].tutor = loc[u].tutor
        => /\ OwnStored(t)
           /\ OwnStored(u)

\* t's request came without a session id, and uuid4() drew one for it
Drawn(t) ==
    /\ pc[t] # "idle" /\ loc[t].kind \in {"chat", "new"}
    /\ loc[t].given_id = NoId /\ loc[t].session_id # NoId

NewlyBound ==
    { s \in DOMAIN user_sessions' :
        s \notin DOMAIN user_sessions \/ user_sessions'[s] # user_sessions[s] }

C16_LengthLimit ==
    \A t \in Threads :
        Spoken(t) =>
            LET c == Cleaned(loc[t].bot_response)
                p == loc[t].payload_text
            IN  /\ Len(p) <= MaxSpeechLen
                /\ Len(c) > MaxSpeechLen =>
                     /\ Len(p) = KeepLen + 3
                     /\ SubSeq(p, 1, KeepLen) = SubSeq(c, 1, KeepLen)
                     /\ SubSeq(p, KeepLen + 1, KeepLen + 3) = <<".", ".", ".">>
                /\ Len(c) <= MaxSpeechLen => p = c

\* C16 witness: a reply with markup whose cleaned form has 501 characters was
\* sent to the Speech Provider as 500 characters ending in the ellipsis.
C16_Witness ==
    \E t \in Threads :
        /\ Spoken(t)
        /\ Len(Cleaned(loc[t].bot_response)) = MaxSpeechLen + 1
        /\ Cleaned(loc[t].bot_response) # loc[t].bot_response
        /\ Len(loc[t].payload_text) = MaxSpeechLen
        /\ loc[t].payload_text[MaxSpeechLen] = "."

\* the session ids a step of thread t is addressed to
Addressed(t) == {loc[t].session_id, loc'[t].session_id}

\* C17: a step of a turn, a new-session request or a reset leaves every entry
\* under another id than the one it is addressed to as it was (the same object,
\* with the same memory, language, proficiency and created_at), and removes no
\* id from the store.
C17_Isolation ==
    [][ \A t \in Threads :
          pc'[t] # pc[t] =>
              /\ DOMAIN user_sessions \subseteq DOMAIN user_sessions'
              /\ \A s \in DOMAIN user_sessions \ Addressed(t) :
                     /\ user_sessions'[s] = user_sessions[s]
                     /\ heap'[user_sessions[s]] = heap[user_sessions[s]] ]_vars

\* C17 witness: a request addressed to one id was answered 200 and changed the
\* store or an entry, while an entry with stored exchanges is bound to another
\* id.
C17_Witness ==
    \E t \in Threads :
        /\ pc[t] = "done" /\ loc[t].status = 200
        /\ loc[t].session_id \in DOMAIN user_sessions
        /\ <<user_sessions, heap>> # <<snap[t].user_sessions, snap[t].heap>>
        /\ \E s \in DOMAIN user_sessions \ {loc[t].session_id} :
               heap[user_sessions[s]].memory # <<>>

\* C18: no step changes created_at, language or proficiency of an entry that
\* exists (turns and resets included), and a sweep removes every id whose entry
\* was created more than 7200 s ago, whatever turns the entry has handled
\* since.
C18_CreationFixed ==
    [][ /\ \A o \in DOMAIN heap :
              /\ o \in DOMAIN heap'
              /\ heap'[o].created_at = heap[o].created_at
              /\ heap'[o].language = heap[o].language
              /\ heap'[o].proficiency = heap[o].proficiency
        /\ Cleanup =>
              \A s \in DOMAIN user_sessions :
                  now - heap[user_sessions[s]].created_at > TTL /\ hist[user_sessions[s]] # <<>>
                      => s \notin DOMAIN user_sessions' ]_vars

\* C18 witness: a turn on a session created more than 7200 s before was
\* answered and its exchange stored, and a sweep removed the session before
\* the response was even returned.
C18_Witness ==
    \E t \in Threads :
        /\ Answered(t) /\ OwnStored(t)
        /\ now - heap[loc[t].tutor].created_at > TTL
        /\ loc[t].session_id \in removed
        /\ loc[t].session_id \notin DOMAIN user_sessions

\* C19: the sweep runs once, before any request is accepted and on the empty
\* store; while the program serves, no step ends the serving phase, sweeps,
\* or removes an id from the store; and a reset that names an id of the store
\* is not answered 404, however old the entry is.
C19_SweepOnlyAtStartup ==
    [][ /\ phase = "startup" /\ phase' # phase =>
              /\ phase' = "serving"
              /\ nreq = 0
              /\ user_sessions = EmptyStore /\ user_sessions' = EmptyStore
        /\ phase = "serving" =>
              /\ phase' = "serving"
              /\ removed' = removed
              /\ DOMAIN user_sessions \subseteq DOMAIN user_sessions'
              /\ \A t \in Threads :
                     /\ pc[t] = "idle" /\ pc'[t] # "idle" /\ loc'[t].kind = "reset"
                     /\ loc'[t].session_id \in DOMAIN user_sessions
                     => loc'[t].status # 404 ]_vars

\* C19 witness: while serving, a turn on a session created more than 7200 s
\* before was answered from that session's entry, which is still in the store.
C19_Witness ==
    \E t \in Threads :
        /\ phase = "serving" /\ Answered(t)
        /\ now - heap[loc[t].tutor].created_at > TTL
        /\ loc[t].session_id \in DOMAIN user_sessions
        /\ user_sessions[loc[t].session_id] = loc[t].tutor
        /\ PreMem(t) # <<>>

====
